---- MODULE Spec2Model ----
(***************************************************************************)
(* A model of pygsheets.pivottable.PivotTable: one entity instance, the    *)
(* operations a caller can invoke on it, and the requests those operations *)
(* hand to the external collaborator (client.sheet.batch_update / get).    *)
(*                                                                         *)
(* Python values are modelled as follows.                                  *)
(*   - None is the record None; an attribute that was never assigned is    *)
(*     Unset (reading it raises AttributeError); any other scalar x stored *)
(*     in a field that may also hold None is Val(x).                       *)
(*   - tuples and lists are both sequences.                                *)
(*   - a JSON object (dict) is a record holding exactly the keys that are  *)
(*     present; dict.get(k, d) is Get(obj, k, d).                          *)
(*   - a (row, column) tuple is the sequence <<row, column>>, wrapped as    *)
(*     Pair(row, column) where the field may also hold None, a label or a  *)
(*     Cell; a label such as "B6" is Label(<<"B", "6">>), the sequence of  *)
(*     its characters.                                                     *)
(*   - a call that may raise returns a record with field exc: "none" when  *)
(*     it returned, the kind of the exception otherwise.                   *)
(***************************************************************************)
EXTENDS Integers, Sequences, FiniteSets, TLC

\* Largest row/column number used in caller inputs and remote payloads.
MaxCoord == 2

\* Largest row/column number of the ranges converted to the wire and back.
MaxIndex == 4

None  == [tag |-> "None"]
Unset == [tag |-> "Unset"]
Val(x) == [tag |-> "val", v |-> x]

\* dict.get(key, default)
Get(obj, key, default) == IF key \in DOMAIN obj THEN obj[key] ELSE default

\* The empty dict {}.
EmptyObj == [k \in {} |-> 0]

(***************************************************************************)
(* Address/Range Normalizer: pygsheets.utils.format_addr and               *)
(* Worksheet.get_gridrange.                                                *)
(***************************************************************************)
Alphabet == <<"A", "B", "C", "D", "E", "F", "G", "H", "I", "J", "K", "L", "M",
              "N", "O", "P", "Q", "R", "S", "T", "U", "V", "W", "X", "Y", "Z">>
Digits == <<"0", "1", "2", "3", "4", "5", "6", "7", "8", "9">>

IsLetter(c) == \E i \in DOMAIN Alphabet : Alphabet[i] = c
IsDigit(c) == \E i \in DOMAIN Digits : Digits[i] = c
LetterValue(c) == CHOOSE i \in DOMAIN Alphabet : Alphabet[i] = c
DigitValue(c) == (CHOOSE i \in DOMAIN Digits : Digits[i] = c) - 1

\* Number of leading letters of a label.
RECURSIVE LetterPrefix(_)
LetterPrefix(chars) ==
    IF chars = <<>> \/ ~IsLetter(Head(chars)) THEN 0
    ELSE 1 + LetterPrefix(Tail(chars))

\* Column letters as a bijective base-26 number: A = 1, Z = 26, AA = 27.
RECURSIVE ColumnNumber(_)
ColumnNumber(letters) ==
    IF letters = <<>> THEN 0
    ELSE 26 * ColumnNumber(SubSeq(letters, 1, Len(letters) - 1))
         + LetterValue(letters[Len(letters)])

RECURSIVE DecimalNumber(_)
DecimalNumber(digits) ==
    IF digits = <<>> THEN 0
    ELSE 10 * DecimalNumber(SubSeq(digits, 1, Len(digits) - 1))
         + DigitValue(digits[Len(digits)])

\* A label matches [A-Z]+[1-9][0-9]*; n is the number of its leading letters.
WellFormedLabel(chars, n) ==
    /\ n >= 1
    /\ n < Len(chars)
    /\ \A i \in (n + 1)..Len(chars) : IsDigit(chars[i])
    /\ chars[n + 1] # "0"

\* The (row, column) pair of a label with n leading letters.
ParseLabel(chars, n) ==
    IF WellFormedLabel(chars, n)
    THEN [exc |-> "none",
          v |-> <<DecimalNumber(SubSeq(chars, n + 1, Len(chars))),
                  ColumnNumber(SubSeq(chars, 1, n))>>]
    ELSE [exc |-> "MalformedAddress"]

\* An address: a label, a (row, column) tuple, or a pygsheets Cell object.
Label(chars) == [tag |-> "str", chars |-> chars]
Pair(r, c) == [tag |-> "tuple", v |-> <<r, c>>]
Cell(r, c) == [tag |-> "Cell", row |-> r, col |-> c]

\* format_addr(addr, "tuple"): the (row, column) pair of an address, or
\* MalformedAddress.
format_addr(addr) ==
    IF addr.tag = "str" THEN ParseLabel(addr.chars, LetterPrefix(addr.chars))
    ELSE IF addr.tag = "tuple" THEN
        IF addr.v[1] >= 1 /\ addr.v[2] >= 1
        THEN [exc |-> "none", v |-> addr.v]
        ELSE [exc |-> "MalformedAddress"]
    ELSE [exc |-> "MalformedAddress"]

\* Id of the worksheet the entity lives in (self._worksheet.id).
WorksheetId == 0

\* The wire GridRange of the 1-indexed inclusive range start..end: start
\* indices shifted down by one, end indices unchanged.
toGridRange(start, end, sheetId) ==
    [sheetId |-> sheetId,
     startRowIndex |-> start[1] - 1, endRowIndex |-> end[1],
     startColumnIndex |-> start[2] - 1, endColumnIndex |-> end[2]]

\* The GridRange of two normalized addresses, or the error of the first
\* that is malformed.
GridRangeOf(s, e) ==
    IF s.exc # "none" THEN [exc |-> s.exc]
    ELSE IF e.exc # "none" THEN [exc |-> e.exc]
    ELSE [exc |-> "none", v |-> toGridRange(s.v, e.v, WorksheetId)]

\* Worksheet.get_gridrange(start, end) on stored (row, column) pairs.
get_gridrange(start, end) ==
    GridRangeOf(format_addr([tag |-> "tuple", v |-> start]),
                format_addr([tag |-> "tuple", v |-> end]))

\* A decoding that shifts the end indices like the start indices.
fromGridRange_shifted_end(source) ==
    << <<Get(source, "startRowIndex", 0) + 1, Get(source, "startColumnIndex", 0) + 1>>,
       <<Get(source, "endRowIndex", 0) + 1, Get(source, "endColumnIndex", 0) + 1>> >>

\* set_json's decoding of one source GridRange (lines 400-407, 415-421).
fromGridRange(source) ==
    << <<Get(source, "startRowIndex", 0) + 1, Get(source, "startColumnIndex", 0) + 1>>,
       <<Get(source, "endRowIndex", 0), Get(source, "endColumnIndex", 0)>> >>

(***************************************************************************)
(* pygsheets.custom_types.ChartType: the enum of chart types.              *)
(***************************************************************************)
ChartTypeMembers == {"BAR", "LINE", "AREA", "COLUMN", "SCATTER", "COMBO",
                     "STEPPED_AREA"}

\* An enum member; its .value is the wire string.
CT(member) == [tag |-> "ChartType", value |-> Val(member)]

\* ChartType(value): the member with that value, or an error for a value
\* that names no member (None included).
ChartType(value) ==
    IF value.tag = "val" /\ value.v \in ChartTypeMembers
    THEN [exc |-> "none", v |-> CT(value.v)]
    ELSE [exc |-> "UnrecognizedVariant"]

(***************************************************************************)
(* The entity: the attributes of one PivotTable object.                    *)
(***************************************************************************)
\* No attribute assigned yet (the object before __init__ runs).
Blank ==
    [name |-> Unset, criteria |-> Unset, domain |-> <<>>, ranges |-> <<>>,
     pivot_table_id |-> Unset, anchor_cell |-> Unset, title |-> Unset,
     chart_id |-> Unset, title_font_family |-> Unset, font_name |-> Unset,
     chart_type |-> Unset, legend_position |-> Unset]

\* The pair of two normalized addresses, or the error of the first that is
\* malformed.
PairOf(a, b) ==
    IF a.exc # "none" THEN [exc |-> a.exc]
    ELSE IF b.exc # "none" THEN [exc |-> b.exc]
    ELSE [exc |-> "none", v |-> <<a.v, b.v>>]

\* (format_addr(r[0]), format_addr(r[1])) for one caller-given range.
NormalizeRange(r) == PairOf(format_addr(r[1]), format_addr(r[2]))

\* h followed by t, or the first error of the two.
Cons(h, t) ==
    IF h.exc # "none" THEN [exc |-> h.exc]
    ELSE IF t.exc # "none" THEN [exc |-> t.exc]
    ELSE [exc |-> "none", v |-> <<h.v>> \o t.v]

\* The loop normalizing a list of caller-given ranges.
RECURSIVE NormalizeRanges(_)
NormalizeRanges(rs) ==
    IF rs = <<>> THEN [exc |-> "none", v |-> <<>>]
    ELSE Cons(NormalizeRange(Head(rs)), NormalizeRanges(Tail(rs)))

\* One {"sourceRange": {"sources": [GridRange]}} wrapper.
SourceRange(grid) == [sourceRange |-> [sources |-> <<grid>>]]

\* One entry of the series list.
SeriesEntry(g) ==
    IF g.exc # "none" THEN g
    ELSE [exc |-> "none", v |-> [series |-> SourceRange(g.v)]]

\* _get_ranges_request: the series list of the wire spec.
RECURSIVE RangesRequest(_)
RangesRequest(ranges) ==
    IF ranges = <<>> THEN [exc |-> "none", v |-> <<>>]
    ELSE Cons(SeriesEntry(get_gridrange(Head(ranges)[1], Head(ranges)[2])),
              RangesRequest(Tail(ranges)))

_get_ranges_request(e) == RangesRequest(e.ranges)

\* obj.value for the object stored in _chart_type.
HasValueAttr(x) == x.tag = "ChartType"

\* The body of get_json once the domain's GridRange g and the series list r
\* are computed: the first exception in the order the code evaluates the
\* parts, or the spec.
BuildSpec(e, g, r) ==
    IF g.exc # "none" THEN [exc |-> g.exc]
    ELSE IF r.exc # "none" THEN [exc |-> r.exc]
    ELSE IF e.title = Unset THEN [exc |-> "AttributeError"]
    ELSE IF ~HasValueAttr(e.chart_type) THEN [exc |-> "AttributeError"]
    ELSE IF Unset \in {e.legend_position, e.title_font_family, e.font_name}
         THEN [exc |-> "AttributeError"]
    ELSE [exc |-> "none",
          v |-> [title |-> e.title,
                 basicChart |-> [chartType |-> e.chart_type.value,
                                 legendPosition |-> e.legend_position,
                                 domains |-> <<[domain |-> SourceRange(g.v)]>>,
                                 series |-> r.v],
                 titleTextFormat |-> [fontFamily |-> e.title_font_family],
                 fontName |-> e.font_name]]

\* A get_json that guards the domain as _create_pivot_table does and emits
\* an empty domains list for an entity without one.
get_json_guarded_domain(e) ==
    IF e.domain = <<>>
    THEN [exc |-> "none",
          v |-> [title |-> e.title,
                 basicChart |-> [chartType |-> e.chart_type.value,
                                 legendPosition |-> e.legend_position,
                                 domains |-> <<>>,
                                 series |-> <<>>],
                 titleTextFormat |-> [fontFamily |-> e.title_font_family],
                 fontName |-> e.font_name]]
    ELSE BuildSpec(e, get_gridrange(e.domain[1], e.domain[2]),
                   _get_ranges_request(e))

\* get_json: the wire spec of the entity, or the exception raised while
\* building it.  An entity without a domain raises IndexError on _domain[0].
get_json(e) ==
    IF e.domain = <<>> THEN [exc |-> "IndexError"]
    ELSE BuildSpec(e, get_gridrange(e.domain[1], e.domain[2]),
                   _get_ranges_request(e))

\* d.get(kind, {}).get("sourceRange", {}).get("sources", None) is None
NoSources(d, kind) ==
    "sources" \notin DOMAIN Get(Get(d, kind, EmptyObj), "sourceRange", EmptyObj)

SourcesOf(d, kind) == d[kind].sourceRange.sources

\* The value of _domain after the sources of one domain entry are read:
\* each source overwrites it, so the last one stays.
LastSource(srcs, cur) ==
    IF srcs = <<>> THEN cur ELSE fromGridRange(srcs[Len(srcs)])

\* The domain loop of set_json; an entry without a sources list raises
\* TypeError with the assignments made so far kept.
RECURSIVE DecodeDomains(_, _)
DecodeDomains(domain_list, cur) ==
    IF domain_list = <<>> THEN [exc |-> "none", v |-> cur]
    ELSE IF NoSources(Head(domain_list), "domain")
    THEN [exc |-> "TypeError", v |-> cur]
    ELSE DecodeDomains(Tail(domain_list),
                       LastSource(SourcesOf(Head(domain_list), "domain"), cur))

RECURSIVE DecodeSources(_)
DecodeSources(srcs) ==
    IF srcs = <<>> THEN <<>>
    ELSE <<fromGridRange(Head(srcs))>> \o DecodeSources(Tail(srcs))

\* The series loop of set_json: every source of every series entry is
\* appended to _ranges.
RECURSIVE DecodeSeries(_, _)
DecodeSeries(range_list, acc) ==
    IF range_list = <<>> THEN [exc |-> "none", v |-> acc]
    ELSE IF NoSources(Head(range_list), "series")
    THEN [exc |-> "TypeError", v |-> acc]
    ELSE DecodeSeries(Tail(range_list),
                      acc \o DecodeSources(SourcesOf(Head(range_list), "series")))

\* set_json, lines 372-390: anchor, title, id and fonts.
SetJsonHead(e, chart_data, anchor_cell_data, spec, font) ==
    [e EXCEPT
       !.anchor_cell = Pair(Get(anchor_cell_data, "rowIndex", 0) + 1,
                            Get(anchor_cell_data, "columnIndex", 0) + 1),
       !.title = Get(spec, "title", None),
       !.chart_id = Get(chart_data, "chartId", None),
       !.title_font_family = font,
       !.font_name = font]

\* set_json, lines 394-421: the domain loop, then _ranges = [] and the
\* series loop (not reached when the domain loop raises).
SetJsonLists(e, d, r) ==
    IF d.exc # "none" THEN [exc |-> d.exc, ent |-> [e EXCEPT !.domain = d.v]]
    ELSE [exc |-> r.exc, ent |-> [e EXCEPT !.domain = d.v, !.ranges = r.v]]

\* set_json, lines 391-421: chart type, legend position and the lists.
SetJsonBasic(e, basic_chart, ct) ==
    IF ct.exc # "none" THEN [exc |-> ct.exc, ent |-> e]
    ELSE SetJsonLists([e EXCEPT
                         !.chart_type = ct.v,
                         !.legend_position = Get(basic_chart, "legendPosition", None)],
                      DecodeDomains(Get(basic_chart, "domains", <<>>), e.domain),
                      DecodeSeries(Get(basic_chart, "series", <<>>), <<>>))

\* set_json after the head: basic_chart is None when the spec has none.
SetJsonBody(e1, spec) ==
    IF "basicChart" \notin DOMAIN spec THEN [exc |-> "AttributeError", ent |-> e1]
    ELSE SetJsonBasic(e1, spec.basicChart,
                      ChartType(Get(spec.basicChart, "chartType", None)))

SetJsonFrom(e, chart_data, overlay, spec) ==
    IF "anchorCell" \notin DOMAIN overlay
    THEN [exc |-> "AttributeError", ent |-> e]
    ELSE SetJsonBody(
            SetJsonHead(e, chart_data, overlay.anchorCell, spec,
                        Get(Get(spec, "titleTextFormat", EmptyObj), "fontFamily", None)),
            spec)

\* set_json: the entity after reading chart_data, and the exception that
\* stopped the reading, if any; the assignments made before it are kept.
set_json(e, chart_data) ==
    SetJsonFrom(e, chart_data,
                Get(Get(chart_data, "position", EmptyObj), "overlayPosition", EmptyObj),
                Get(chart_data, "spec", EmptyObj))

(***************************************************************************)
(* Requests handed to the collaborator.  accepted tells whether the        *)
(* collaborator carried the request out or failed it (the call raised).    *)
(***************************************************************************)
CollaboratorOutcome(ok) == IF ok THEN "none" ELSE "CollaboratorError"

\* The wire anchor of a normalized address.
AnchorOf(cell) ==
    IF cell.exc # "none" THEN [exc |-> cell.exc]
    ELSE [exc |-> "none",
          v |-> [columnIndex |-> cell.v[2] - 1, rowIndex |-> cell.v[1] - 1,
                 sheetId |-> WorksheetId]]

\* _get_anchor_cell: the wire anchor of the entity.
_get_anchor_cell(e) ==
    IF e.anchor_cell = None THEN
        IF e.domain # <<>>
        THEN [exc |-> "none",
              v |-> [columnIndex |-> e.domain[2][2] - 1,
                     rowIndex |-> e.domain[2][1],
                     sheetId |-> WorksheetId]]
        ELSE [exc |-> "none",
              v |-> [columnIndex |-> 0, rowIndex |-> 0, sheetId |-> WorksheetId]]
    ELSE IF e.anchor_cell.tag = "Cell" THEN
        [exc |-> "none",
         v |-> [columnIndex |-> e.anchor_cell.col - 1,
                rowIndex |-> e.anchor_cell.row - 1,
                sheetId |-> WorksheetId]]
    ELSE AnchorOf(format_addr(e.anchor_cell))

\* The outcome of sending request: the reply is read with set_json when the
\* collaborator accepted it.
SendCreate(e, request, s) ==
    IF ~request.accepted
    THEN [exc |-> "CollaboratorError", ent |-> e, sent |-> <<request>>]
    ELSE [exc |-> s.exc, ent |-> s.ent, sent |-> <<request>>]

\* The body of _create_pivot_table once the domain's GridRange g, the series
\* list r and the anchor a are computed, in the order the request literal
\* evaluates its parts: _title, _chart_type.value, the series, the anchor.
CreateFrom(e, ok, reply, g, r, a) ==
    IF g.exc # "none" THEN [exc |-> g.exc, ent |-> e, sent |-> <<>>]
    ELSE IF e.title = Unset
         THEN [exc |-> "AttributeError", ent |-> e, sent |-> <<>>]
    ELSE IF ~HasValueAttr(e.chart_type)
         THEN [exc |-> "AttributeError", ent |-> e, sent |-> <<>>]
    ELSE IF r.exc # "none" THEN [exc |-> r.exc, ent |-> e, sent |-> <<>>]
    ELSE IF a.exc # "none" THEN [exc |-> a.exc, ent |-> e, sent |-> <<>>]
    ELSE SendCreate(e,
                    [kind |-> "addChart",
                     spec |-> [title |-> e.title,
                               basicChart |-> [chartType |-> e.chart_type.value,
                                               domains |-> g.v,
                                               series |-> r.v]],
                     anchorCell |-> a.v,
                     accepted |-> ok],
                    set_json(e, reply))

\* One entry of the domains list.
DomainEntry(g) ==
    IF g.exc # "none" THEN g
    ELSE [exc |-> "none", v |-> <<[domain |-> SourceRange(g.v)]>>]

\* _create_pivot_table: builds the addChart request, sends it and reads the
\* reply with set_json.  reply is the chart the collaborator answers with.
_create_pivot_table(e, ok, reply) ==
    CreateFrom(e, ok, reply,
               IF e.domain = <<>> THEN [exc |-> "none", v |-> <<>>]
               ELSE DomainEntry(get_gridrange(e.domain[1], e.domain[2])),
               _get_ranges_request(e),
               _get_anchor_cell(e))

\* batch_update of an updateChartSpec request carrying spec j.
SendUpdate(e, ok, j) ==
    IF j.exc # "none" THEN [exc |-> j.exc, sent |-> <<>>]
    ELSE [exc |-> CollaboratorOutcome(ok),
          sent |-> <<[kind |-> "updateChartSpec", id |-> e.chart_id,
                      spec |-> j.v, accepted |-> ok]>>]

\* update_pivot_table: sends the whole spec as an updateChartSpec request.
update_pivot_table(e, ok) ==
    IF e.chart_id = Unset THEN [exc |-> "AttributeError", sent |-> <<>>]
    ELSE SendUpdate(e, ok, get_json(e))

\* An _update_position that sends the 1-indexed anchor as it is stored.
_update_position_unshifted(e, ok) ==
    IF e.chart_id = Unset THEN [exc |-> "AttributeError", sent |-> <<>>]
    ELSE IF e.anchor_cell.tag # "tuple" THEN [exc |-> "TypeError", sent |-> <<>>]
    ELSE [exc |-> CollaboratorOutcome(ok),
          sent |-> <<[kind |-> "updateEmbeddedObjectPosition", id |-> e.chart_id,
                      anchorCell |-> [sheetId |-> WorksheetId,
                                      rowIndex |-> e.anchor_cell.v[1],
                                      columnIndex |-> e.anchor_cell.v[2]],
                      accepted |-> ok]>>]

\* _update_position: sends the anchor as an updateEmbeddedObjectPosition
\* request.
_update_position(e, ok) ==
    IF e.chart_id = Unset THEN [exc |-> "AttributeError", sent |-> <<>>]
    ELSE IF e.anchor_cell.tag # "tuple" THEN [exc |-> "TypeError", sent |-> <<>>]
    ELSE [exc |-> CollaboratorOutcome(ok),
          sent |-> <<[kind |-> "updateEmbeddedObjectPosition", id |-> e.chart_id,
                      anchorCell |-> [sheetId |-> WorksheetId,
                                      rowIndex |-> e.anchor_cell.v[1] - 1,
                                      columnIndex |-> e.anchor_cell.v[2] - 1],
                      accepted |-> ok]>>]

\* An absent argument of __init__.
NoArg == [tag |-> "NoArg"]

\* __init__, lines 73-79: a create request without json_obj, the reading of
\* json_obj otherwise.
InitBind(e, json_obj, ok, reply) ==
    IF json_obj = NoArg THEN _create_pivot_table(e, ok, reply)
    ELSE [sent |-> <<>>] @@ set_json(e, json_obj.v)

\* __init__, lines 56-72: the attributes from the arguments; d and rs are
\* the normalized domain and ranges.
InitFields(d, rs, criteria, name, anchor_cell, json_obj, ok, reply) ==
    IF d.exc # "none" THEN [exc |-> d.exc, ent |-> Blank, sent |-> <<>>]
    ELSE IF rs.exc # "none" THEN [exc |-> rs.exc, ent |-> Blank, sent |-> <<>>]
    ELSE InitBind([Blank EXCEPT !.name = name, !.criteria = criteria,
                                !.domain = d.v, !.ranges = rs.v,
                                !.pivot_table_id = None,
                                !.anchor_cell = anchor_cell],
                  json_obj, ok, reply)

\* PivotTable(worksheet, domain, ranges, criteria, name, anchor_cell, json_obj)
__init__(domain, ranges, criteria, name, anchor_cell, json_obj, ok, reply) ==
    InitFields(IF domain = NoArg THEN [exc |-> "none", v |-> <<>>]
               ELSE NormalizeRange(domain.v),
               IF ranges = NoArg THEN [exc |-> "none", v |-> <<>>]
               ELSE NormalizeRanges(ranges.v),
               criteria, name, anchor_cell, json_obj, ok, reply)

(***************************************************************************)
(* The property setters.  Each returns the exception that leaves the       *)
(* setter (exc), the first exception raised inside it (failure), the       *)
(* entity when it ends and the requests it sent.                           *)
(***************************************************************************)
\* The end of name.setter: u is the outcome of update_pivot_table on e1;
\* the except clause assigns the saved name to _title.
NameOutcome(e1, temp, u) ==
    [exc |-> "none", failure |-> u.exc, sent |-> u.sent,
     ent |-> IF u.exc = "none" THEN e1 ELSE [e1 EXCEPT !.title = temp]]

\* name.setter
name_setter(e, new_name, ok) ==
    NameOutcome([e EXCEPT !.name = new_name], e.name,
                update_pivot_table([e EXCEPT !.name = new_name], ok))

\* The end of domain.setter: the except clause restores _domain.
DomainOutcome(e1, temp, u) ==
    [exc |-> "none", failure |-> u.exc, sent |-> u.sent,
     ent |-> IF u.exc = "none" THEN e1 ELSE [e1 EXCEPT !.domain = temp]]

\* domain.setter once new_domain is normalized to n.
DomainAssign(e, n, ok) ==
    IF n.exc # "none"
    THEN [exc |-> n.exc, failure |-> n.exc, sent |-> <<>>, ent |-> e]
    ELSE DomainOutcome([e EXCEPT !.domain = n.v], e.domain,
                       update_pivot_table([e EXCEPT !.domain = n.v], ok))

\* domain.setter
domain_setter(e, new_domain, ok) == DomainAssign(e, NormalizeRange(new_domain), ok)

\* The end of criteria.setter: the except clause restores _chart_type.
CriteriaOutcome(e1, temp, u) ==
    [exc |-> "none", failure |-> u.exc, sent |-> u.sent,
     ent |-> IF u.exc = "none" THEN e1 ELSE [e1 EXCEPT !.chart_type = temp]]

\* criteria.setter: it reads and assigns _chart_type, not _criteria.
criteria_setter(e, new_chart_type, ok) ==
    IF e.chart_type = Unset
    THEN [exc |-> "AttributeError", failure |-> "AttributeError",
          sent |-> <<>>, ent |-> e]
    ELSE CriteriaOutcome([e EXCEPT !.chart_type = new_chart_type], e.chart_type,
                         update_pivot_table([e EXCEPT !.chart_type = new_chart_type], ok))

\* ranges.setter once new_ranges is normalized to n.  self.update_chart()
\* names no method of the class: the call raises AttributeError before any
\* request is built, and the except clause restores _ranges.
RangesAssign(e, n) ==
    IF n.exc # "none"
    THEN [exc |-> n.exc, failure |-> n.exc, sent |-> <<>>, ent |-> e]
    ELSE [exc |-> "none", failure |-> "AttributeError", sent |-> <<>>,
          ent |-> [[e EXCEPT !.ranges = n.v] EXCEPT !.ranges = e.ranges]]

\* ranges.setter: new_ranges is one range (a tuple) or a list of ranges.
ranges_setter(e, new_ranges) ==
    RangesAssign(e, NormalizeRanges(IF new_ranges.tag = "tuple"
                                    THEN <<new_ranges.v>> ELSE new_ranges.v))

\* The end of anchor_cell.setter: the except clause restores _anchor_cell.
AnchorOutcome(e1, temp, u) ==
    [exc |-> "none", failure |-> u.exc, sent |-> u.sent,
     ent |-> IF u.exc = "none" THEN e1 ELSE [e1 EXCEPT !.anchor_cell = temp]]

\* anchor_cell.setter once the new anchor is computed: a is its (row,
\* column) pair, or the exception format_addr raised inside the try.
AnchorAssign(e, a, ok) ==
    IF a.exc # "none"
    THEN [exc |-> "none", failure |-> a.exc, sent |-> <<>>, ent |-> e]
    ELSE AnchorOutcome([e EXCEPT !.anchor_cell = Pair(a.v[1], a.v[2])],
                       e.anchor_cell,
                       _update_position([e EXCEPT !.anchor_cell = Pair(a.v[1], a.v[2])], ok))

\* anchor_cell.setter
anchor_cell_setter(e, new_anchor_cell, ok) ==
    AnchorAssign(e,
                 IF new_anchor_cell.tag = "Cell"
                 THEN [exc |-> "none",
                       v |-> <<new_anchor_cell.row, new_anchor_cell.col>>]
                 ELSE format_addr(new_anchor_cell),
                 ok)

\* delete: sends a deleteEmbeddedObject request; no attribute changes.
delete(e, ok) ==
    IF e.chart_id = Unset
    THEN [exc |-> "AttributeError", failure |-> "AttributeError",
          sent |-> <<>>, ent |-> e]
    ELSE [exc |-> CollaboratorOutcome(ok), failure |-> CollaboratorOutcome(ok),
          ent |-> e,
          sent |-> <<[kind |-> "deleteEmbeddedObject", id |-> e.chart_id,
                      accepted |-> ok]>>]

\* pivot.set_json(pivot.get_json()): j is the outcome of get_json.
Reread(e, j) ==
    IF j.exc # "none" THEN [exc |-> j.exc, ent |-> e, sent |-> <<>>]
    ELSE [sent |-> <<>>] @@ set_json(e, j.v)

round_trip(e) == Reread(e, get_json(e))

\* Whether the fetched data holds, on the entity's worksheet, a chart with
\* the given id.
ChartPresent(chart_data, id) ==
    \E i \in DOMAIN chart_data.sheets :
        /\ chart_data.sheets[i].properties.sheetId = Val(WorksheetId)
        /\ \E k \in DOMAIN Get(chart_data.sheets[i], "charts", <<>>) :
              Get(chart_data.sheets[i].charts[k], "chartId", None) = id

\* Nothing read.
NotFound(e) == [exc |-> "none", ent |-> e, found |-> FALSE, chart |-> NoArg]

\* The outcome of a loop step that read `here` and then went on with `rest`:
\* the last chart read is reported.
Merge(here, rest) ==
    IF rest.found \/ ~here.found THEN rest
    ELSE [rest EXCEPT !.found = TRUE, !.chart = here.chart]

\* The chart loop of refresh: every chart whose chartId equals _chart_id is
\* read with set_json; s is the outcome of reading the first chart.  The
\* comparison is the first read of _chart_id: it raises AttributeError on an
\* object that has none.
RECURSIVE RefreshCharts(_, _)
ReadChart(chart, s, rest_list) ==
    IF s.exc # "none"
    THEN [exc |-> s.exc, ent |-> s.ent, found |-> TRUE, chart |-> chart]
    ELSE Merge([found |-> TRUE, chart |-> chart], RefreshCharts(s.ent, rest_list))

RefreshCharts(e, chart_list) ==
    IF chart_list = <<>> THEN NotFound(e)
    ELSE IF e.chart_id = Unset
    THEN [NotFound(e) EXCEPT !.exc = "AttributeError"]
    ELSE IF Get(Head(chart_list), "chartId", None) # e.chart_id
    THEN RefreshCharts(e, Tail(chart_list))
    ELSE ReadChart(Head(chart_list), set_json(e, Head(chart_list)), Tail(chart_list))

\* The sheet loop of refresh.  The sheet is picked with "is": identical
\* tells whether two equal ids are also the same object.
RECURSIVE RefreshSheets(_, _, _)
ReadSheet(here, rest_list, identical) ==
    IF here.exc # "none" THEN here
    ELSE Merge(here, RefreshSheets(here.ent, rest_list, identical))

RefreshSheets(e, sheet_list, identical) ==
    IF sheet_list = <<>> THEN NotFound(e)
    ELSE ReadSheet(IF /\ Get(Get(Head(sheet_list), "properties", EmptyObj),
                             "sheetId", None) = Val(WorksheetId)
                      /\ identical
                   THEN RefreshCharts(e, Get(Head(sheet_list), "charts", <<>>))
                   ELSE NotFound(e),
                   Tail(sheet_list), identical)

\* refresh: fetches the charts of the spreadsheet and reads the entity's
\* own chart, if it is among them.
refresh(e, ok, chart_data, identical) ==
    IF ~ok
    THEN [sent |-> <<[kind |-> "get", accepted |-> ok]>>]
         @@ [NotFound(e) EXCEPT !.exc = "CollaboratorError"]
    ELSE [sent |-> <<[kind |-> "get", accepted |-> ok]>>]
         @@ RefreshSheets(e, chart_data.sheets, identical)

(***************************************************************************)
(* Inputs: what a caller passes and what the collaborator answers.         *)
(***************************************************************************)
Names == {Val("sales"), Val("costs")}

A1 == Label(<<"A", "1">>)
B2 == Label(<<"B", "2">>)
BadLabel == Label(<<"1", "A">>)

\* Pairs of addresses given as a domain or as one range.
RangeInputs ==
    {<<a, b>> : a \in {A1, Pair(0, 1)},
                b \in {B2, Pair(MaxCoord, MaxCoord), BadLabel}}

DomainArgs == {NoArg} \cup {Val(r) : r \in {<<A1, B2>>, <<Pair(0, 1), B2>>}}

\* The ranges argument: one range as a tuple, or a list of ranges.
RangesInputs ==
    {[tag |-> "tuple", v |-> <<A1, B2>>],
     [tag |-> "list", v |-> <<>>],
     [tag |-> "list", v |-> << <<A1, B2>>, <<Pair(1, 1), Pair(MaxCoord, MaxCoord)>> >>],
     [tag |-> "list", v |-> << <<A1, BadLabel>> >>]}

RangesArgs == {NoArg, [tag |-> "list", v |-> << <<A1, B2>> >>],
               [tag |-> "list", v |-> << <<A1, BadLabel>> >>]}

AnchorInputs == {B2, BadLabel, Pair(0, 1), Cell(1, 1)}

AnchorArgs == {None, BadLabel}

CriteriaInputs == {CT("LINE"), Val(1)}

\* Whether a caller-given address, pair of addresses or list of pairs holds
\* an address format_addr rejects.
Malformed(addr) == format_addr(addr).exc # "none"
MalformedRange(r) == Malformed(r[1]) \/ Malformed(r[2])
MalformedRanges(rs) == \E i \in DOMAIN rs : MalformedRange(rs[i])

\* Wire GridRanges, DomainOf/SeriesOf entries and charts as the collaborator
\* sends them; it leaves out an index that is zero.
\* An optional key: Absent, or Present(x).
Absent == <<>>
Present(x) == <<x>>

\* A JSON object holding key k when o is Present.
Opt(k, o) == IF o = Absent THEN EmptyObj ELSE [j \in {k} |-> o[1]]

DomainOf(g) == <<[domain |-> SourceRange(g)]>>
SeriesOf(g) == <<[series |-> SourceRange(g)]>>

GridB == [sheetId |-> WorksheetId, endRowIndex |-> MaxCoord, endColumnIndex |-> MaxCoord]
GridC == [sheetId |-> WorksheetId]

\* The basicChart part of a chart: an unknown chart type, or a known one
\* with its domains and series, each possibly left out or empty.
BasicCharts ==
    {[chartType |-> Val("BOGUS")]}
    \cup {[chartType |-> Val("BAR")] @@ Opt("domains", p[1]) @@ Opt("series", p[2]) :
            p \in {<<Absent, Absent>>,
                   <<Present(<<>>), Present(SeriesOf(GridB))>>,
                   <<Present(DomainOf(GridB)), Present(SeriesOf(GridB) \o SeriesOf(GridB))>>,
                   <<Present(DomainOf(GridC)), Absent>>}}

AnchorA == [sheetId |-> WorksheetId, rowIndex |-> 1, columnIndex |-> 1]
AnchorB == [sheetId |-> WorksheetId]

Chart(id, position, title, basic) ==
    Opt("chartId", id) @@ Opt("position", position)
      @@ [spec |-> Opt("title", title) @@ Opt("basicChart", basic)]

PositionOf(a) == Present([overlayPosition |-> [anchorCell |-> a]])

\* A chart with domain and series, without a title.
PlainChart ==
    Chart(Present(Val(7)), PositionOf(AnchorB), Absent,
          Present([chartType |-> Val("BAR"), domains |-> DomainOf(GridB),
                   series |-> SeriesOf(GridB)]))

\* The chart the collaborator answers a create request with.
ReplyChart ==
    Chart(Present(Val(7)), PositionOf(AnchorA), Present(Val("sales")),
          Present([chartType |-> Val("BAR")]))

\* Charts as the collaborator describes them.
ChartPayloads ==
    {Chart(id, PositionOf(AnchorA), Present(Val("sales")), Present(b)) :
        id \in {Absent, Present(Val(7))}, b \in BasicCharts}
    \cup {PlainChart,
          Chart(Present(Val(7)), PositionOf(AnchorB), Absent, Absent),
          Chart(Present(Val(7)), Absent, Absent, Absent),
          Chart(Present(Val(8)), PositionOf(AnchorA), Absent, Absent)}

\* What get returns: the sheets of the spreadsheet with their charts.
FetchedData ==
    {[sheets |-> <<[properties |-> [sheetId |-> Val(WorksheetId)]]
                    @@ Opt("charts", cs)>>] :
        cs \in {Absent, Present(<<>>)} \cup {Present(<<c>>) : c \in ChartPayloads}
               \cup {Present(<<PlainChart, Chart(Present(Val(8)), Absent, Absent, Absent),
                               ReplyChart>>)}}
    \cup {[sheets |-> <<[properties |-> [sheetId |-> Val(1)],
                         charts |-> <<PlainChart>>]>>]}

\* A spreadsheet without sheets.
EmptyData == [sheets |-> <<>>]

\* The worksheet with the chart of id 7 and nothing else.
OwnChartData ==
    [sheets |-> <<[properties |-> [sheetId |-> Val(WorksheetId)],
                   charts |-> <<Chart(Present(Val(7)), PositionOf(AnchorA),
                                      Present(Val("sales")),
                                      Present([chartType |-> Val("BAR")]))>>]>>]

(***************************************************************************)
(* The state machine.                                                      *)
(***************************************************************************)
VARIABLES
    pc,       \* "new": no object yet; "live": constructed; "failed": __init__ raised
    ent,      \* the attributes of the object
    last,     \* the last operation: its name, inputs and outcome
    sent,     \* the requests the last operation handed to the collaborator
    deleted,  \* a delete request was accepted for this entity
    conv      \* the conversion the last operation made: a range or an anchor,
              \* its wire form and what was decoded from it

vars == <<pc, ent, last, sent, deleted, conv>>

\* No range conversion under way.
NoConv == [state |-> "none"]

Init ==
    /\ pc = "new"
    /\ ent = Blank
    /\ last = [op |-> "none", exc |-> "none", failure |-> "none"]
    /\ sent = <<>>
    /\ deleted = FALSE
    /\ conv = NoConv

\* The state after an operation on the live object with outcome r; info
\* holds the operation's name and inputs.
Finish(r, info) ==
    /\ ent' = r.ent
    /\ sent' = r.sent
    /\ last' = info @@ [exc |-> r.exc,
                        failure |-> IF "failure" \in DOMAIN r THEN r.failure ELSE r.exc]
                    @@ (IF info.op = "refresh"
                        THEN [found |-> r.found, chart |-> r.chart] ELSE EmptyObj)
    /\ deleted' = (deleted \/ (info.op = "delete" /\ r.exc = "none"))
    /\ conv' = IF "conv" \in DOMAIN r THEN r.conv ELSE NoConv
    /\ UNCHANGED pc

\* The state after __init__ with outcome r: no object when it raised.
FinishInit(r, info) ==
    /\ pc' = IF r.exc = "none" THEN "live" ELSE "failed"
    /\ ent' = IF r.exc = "none" THEN r.ent ELSE Blank
    /\ sent' = r.sent
    /\ last' = info @@ [exc |-> r.exc, failure |-> r.exc]
    /\ UNCHANGED <<deleted, conv>>

\* PivotTable(worksheet, domain, ranges, criteria, name, anchor_cell, json_obj)
Construct ==
    /\ pc = "new"
    /\ \E domain \in DomainArgs, ranges \in RangesArgs, name \in Names,
          anchor_cell \in AnchorArgs,
          json_obj \in {NoArg} \cup {Val(c) : c \in ChartPayloads},
          ok \in BOOLEAN :
        FinishInit(__init__(domain, ranges, None, name, anchor_cell, json_obj, ok,
                            ReplyChart),
                   [op |-> "init", json |-> json_obj # NoArg,
                    nodomain |-> (domain = NoArg /\ json_obj = NoArg),
                    malformed |-> \/ (domain # NoArg /\ MalformedRange(domain.v))
                                  \/ (ranges # NoArg /\ MalformedRanges(ranges.v))
                                  \/ (anchor_cell # None /\ Malformed(anchor_cell))])

\* pivot.name = new_name
SetName ==
    /\ pc = "live"
    /\ \E new_name \in Names, ok \in BOOLEAN :
        Finish(name_setter(ent, new_name, ok),
               [op |-> "name", arg |-> new_name, malformed |-> FALSE,
                nodomain |-> ent.domain = <<>>])

\* pivot.domain = new_domain
SetDomain ==
    /\ pc = "live"
    /\ \E new_domain \in RangeInputs, ok \in BOOLEAN :
        Finish(domain_setter(ent, new_domain, ok),
               [op |-> "domain", arg |-> new_domain,
                norm |-> NormalizeRange(new_domain),
                malformed |-> MalformedRange(new_domain), nodomain |-> FALSE])

\* pivot.criteria = new_chart_type
SetCriteria ==
    /\ pc = "live"
    /\ \E new_chart_type \in CriteriaInputs, ok \in BOOLEAN :
        Finish(criteria_setter(ent, new_chart_type, ok),
               [op |-> "criteria", arg |-> new_chart_type, malformed |-> FALSE,
                nodomain |-> ent.domain = <<>>])

\* pivot.ranges = new_ranges
SetRanges ==
    /\ pc = "live"
    /\ \E new_ranges \in RangesInputs :
        Finish(ranges_setter(ent, new_ranges),
               [op |-> "ranges", arg |-> new_ranges,
                norm |-> NormalizeRanges(IF new_ranges.tag = "tuple"
                                         THEN <<new_ranges.v>> ELSE new_ranges.v),
                malformed |-> IF new_ranges.tag = "tuple"
                              THEN MalformedRange(new_ranges.v)
                              ELSE MalformedRanges(new_ranges.v),
                nodomain |-> FALSE])

\* pivot.anchor_cell = new_anchor_cell
SetAnchorCell ==
    /\ pc = "live"
    /\ \E new_anchor_cell \in AnchorInputs, ok \in BOOLEAN :
        Finish(anchor_cell_setter(ent, new_anchor_cell, ok),
               [op |-> "anchor_cell", arg |-> new_anchor_cell,
                malformed |-> new_anchor_cell.tag # "Cell" /\ Malformed(new_anchor_cell),
                nodomain |-> FALSE])

\* pivot.update_pivot_table()
UpdatePivotTable ==
    /\ pc = "live"
    /\ \E ok \in BOOLEAN :
        Finish([ent |-> ent] @@ update_pivot_table(ent, ok),
               [op |-> "update", malformed |-> FALSE, nodomain |-> ent.domain = <<>>])

\* pivot.delete()
Delete ==
    /\ pc = "live"
    /\ \E ok \in BOOLEAN :
        Finish(delete(ent, ok),
               [op |-> "delete", malformed |-> FALSE, nodomain |-> FALSE])

\* What the collaborator answers to get and whether "is" finds the sheet:
\* a failure, or the fetched data.  When "is" tells the sheet's id apart
\* from the worksheet's, the charts are not looked at.
RefreshInputs ==
    {<<FALSE, EmptyData, FALSE>>, <<TRUE, OwnChartData, FALSE>>}
    \cup {<<TRUE, d, TRUE>> : d \in FetchedData}

\* pivot.refresh()
Refresh ==
    /\ pc = "live"
    /\ \E reply \in RefreshInputs :
        Finish(refresh(ent, reply[1], reply[2], reply[3]),
               [op |-> "refresh", malformed |-> FALSE, nodomain |-> FALSE,
                present |-> ChartPresent(reply[2], ent.chart_id)])

\* pivot.set_json(pivot.get_json())
RoundTrip ==
    /\ pc = "live"
    /\ Finish(round_trip(ent),
              [op |-> "round_trip", malformed |-> FALSE,
               nodomain |-> ent.domain = <<>>])

\* pivot.set_json(chart_data), called by the user with a chart.
SetJson ==
    /\ pc = "live"
    /\ \E chart_data \in ChartPayloads :
        Finish([sent |-> <<>>] @@ set_json(ent, chart_data),
               [op |-> "set_json", malformed |-> FALSE, nodomain |-> FALSE])

Next ==
    \/ Construct
    \/ SetName
    \/ SetDomain
    \/ SetCriteria
    \/ SetRanges
    \/ SetAnchorCell
    \/ UpdatePivotTable
    \/ Delete
    \/ Refresh
    \/ RoundTrip
    \/ SetJson

Spec == Init /\ [][Next]_vars

(***************************************************************************)
(* The range conversion on its own: a valid 1-indexed inclusive range on   *)
(* some sheet is encoded as a GridRange and decoded as set_json decodes a  *)
(* source.                                                                 *)
(***************************************************************************)
Indexes == 1..MaxIndex

\* The ranges with start <= end on both axes.
ValidRanges ==
    {r \in (Indexes \X Indexes) \X (Indexes \X Indexes) :
        r[1][1] <= r[2][1] /\ r[1][2] <= r[2][2]}

InitRange ==
    /\ pc = "new"
    /\ ent = Blank
    /\ last = [op |-> "none", exc |-> "none", failure |-> "none"]
    /\ sent = <<>>
    /\ deleted = FALSE
    /\ conv \in {[state |-> "given", r |-> r, sheet |-> s] :
                   r \in ValidRanges, s \in {WorksheetId, 1}}

\* The range goes to the wire.
Encode ==
    /\ conv.state = "given"
    /\ conv' = [state |-> "encoded", r |-> conv.r, sheet |-> conv.sheet,
                grid |-> toGridRange(conv.r[1], conv.r[2], conv.sheet)]
    /\ UNCHANGED <<pc, ent, last, sent, deleted>>

\* The wire form is read back.
Decode ==
    /\ conv.state = "encoded"
    /\ conv' = [state |-> "decoded", r |-> conv.r, sheet |-> conv.sheet,
                grid |-> conv.grid, decoded |-> fromGridRange(conv.grid)]
    /\ UNCHANGED <<pc, ent, last, sent, deleted>>

NextRange ==
    \/ Encode
    \/ Decode

SpecRange == InitRange /\ [][NextRange]_vars

(***************************************************************************)
(* The anchor cell on its own: an entity is bound from a chart anchored at *)
(* any cell, its anchor is set and refreshed to any cell, and the anchor   *)
(* it holds is emitted as a wire position and decoded by set_json.         *)
(***************************************************************************)
\* A wire anchorCell as the collaborator sends it: with omit, an index that
\* is zero is left out.
OnWire(a, omit) ==
    [sheetId |-> a.sheetId]
      @@ (IF omit /\ a.rowIndex = 0 THEN EmptyObj ELSE [rowIndex |-> a.rowIndex])
      @@ (IF omit /\ a.columnIndex = 0 THEN EmptyObj
          ELSE [columnIndex |-> a.columnIndex])

\* The wire anchorCell of row r, column c.
WireAnchorAt(r, c) ==
    [sheetId |-> WorksheetId, rowIndex |-> r - 1, columnIndex |-> c - 1]

\* A chart of id 7 anchored at the wire position a.
AnchoredChart(a) ==
    Chart(Present(Val(7)), PositionOf(a), Present(Val("sales")),
          Present([chartType |-> Val("BAR"), domains |-> DomainOf(GridB)]))

\* The wire positions a chart can be anchored at.
AnchoredAt ==
    {OnWire(WireAnchorAt(r, c), omit) : r \in Indexes, c \in Indexes,
                                        omit \in BOOLEAN}

\* What a caller assigns to anchor_cell: a (row, column) pair, a Cell or a
\* label.
AnchorsGiven ==
    {Pair(r, c) : r \in 0..MaxIndex, c \in 0..MaxIndex}
    \cup {Cell(r, c) : r \in Indexes, c \in Indexes}
    \cup {B2, BadLabel}

\* PivotTable(wks, json_obj=chart) for a chart anchored anywhere.
ConstructAnchored ==
    /\ pc = "new"
    /\ \E a \in AnchoredAt :
        FinishInit(__init__(NoArg, NoArg, None, Val("sales"), None,
                            Val(AnchoredChart(a)), TRUE, ReplyChart),
                   [op |-> "init", json |-> TRUE, nodomain |-> FALSE,
                    malformed |-> FALSE])

\* pivot.anchor_cell = new_anchor_cell, for any cell.
SetAnchorCellAt ==
    /\ pc = "live"
    /\ \E new_anchor_cell \in AnchorsGiven, ok \in BOOLEAN :
        Finish(anchor_cell_setter(ent, new_anchor_cell, ok),
               [op |-> "anchor_cell", arg |-> new_anchor_cell,
                malformed |-> new_anchor_cell.tag # "Cell" /\ Malformed(new_anchor_cell),
                nodomain |-> FALSE])

\* pivot.refresh() when the chart was moved to another cell.
RefreshAt ==
    /\ pc = "live"
    /\ \E a \in AnchoredAt :
        Finish(refresh(ent, TRUE,
                       [sheets |-> <<[properties |-> [sheetId |-> Val(WorksheetId)],
                                      charts |-> <<AnchoredChart(a)>>]>>],
                       TRUE),
               [op |-> "refresh", malformed |-> FALSE, nodomain |-> FALSE,
                present |-> TRUE])

\* The anchor the entity holds, as each form _get_anchor_cell accepts.
AnchorForms(a) == {a, Cell(a.v[1], a.v[2])}

\* pivot._get_anchor_cell(), as a create request calls it, for each form of
\* an explicit anchor: it returns the wire position and changes nothing.
GetAnchorCell ==
    /\ pc = "live"
    /\ \E form \in AnchorForms(ent.anchor_cell) :
        conv' = [state |-> "emitted", anchor |-> ent.anchor_cell,
                 by |-> "_get_anchor_cell",
                 wire |-> _get_anchor_cell([ent EXCEPT !.anchor_cell = form]).v]
    /\ UNCHANGED <<pc, ent, last, sent, deleted>>

\* The outcome of _update_position with the position its request carries.
PositionSent(e, u) ==
    [exc |-> u.exc, ent |-> e, sent |-> u.sent,
     conv |-> IF u.sent = <<>> THEN NoConv
              ELSE [state |-> "emitted", anchor |-> e.anchor_cell,
                    by |-> "_update_position", wire |-> u.sent[1].anchorCell]]

\* pivot._update_position(): the anchor goes to the collaborator in an
\* updateEmbeddedObjectPosition request.
UpdatePosition ==
    /\ pc = "live"
    /\ \E ok \in BOOLEAN :
        Finish(PositionSent(ent, _update_position(ent, ok)),
               [op |-> "_update_position", malformed |-> FALSE,
                nodomain |-> FALSE])

\* The outcome s of set_json on a chart anchored at the emitted position.
AnchorRead(c, s) ==
    [exc |-> s.exc, ent |-> s.ent, sent |-> <<>>,
     conv |-> [state |-> "decoded", anchor |-> c.anchor, by |-> c.by,
               wire |-> c.wire, decoded |-> s.ent.anchor_cell]]

\* pivot.set_json(chart) for a chart that carries the emitted position.
DecodeAnchor ==
    /\ pc = "live"
    /\ conv.state = "emitted"
    /\ \E omit \in BOOLEAN :
        Finish(AnchorRead(conv, set_json(ent, AnchoredChart(OnWire(conv.wire, omit)))),
               [op |-> "set_json", malformed |-> FALSE, nodomain |-> FALSE])

NextAnchor ==
    \/ ConstructAnchored
    \/ SetAnchorCellAt
    \/ RefreshAt
    \/ GetAnchorCell
    \/ UpdatePosition
    \/ DecodeAnchor

SpecAnchor == Init /\ [][NextAnchor]_vars

(***************************************************************************)
(* Properties.                                                             *)
(***************************************************************************)
Setters == {"name", "domain", "criteria", "ranges", "anchor_cell"}

\* C1: when the remote update a property setter triggers fails, every field
\* of the entity has, when the setter returns, the value it had before the
\* setter was called.
C1_RollbackOnFailure ==
    [][(last'.op \in Setters /\ last'.failure = "CollaboratorError")
        => ent' = ent]_vars

\* C2: no failure is swallowed: a setter in which the collaborator call or
\* the address normalization failed ends in an error visible to the caller.
C2_FailuresSurface ==
    (last.op \in Setters /\ last.failure \in {"CollaboratorError", "MalformedAddress"})
        => last.exc # "none"

\* The fields the entity round trip compares.
SameEntity(a, b) ==
    /\ a.domain = b.domain
    /\ a.ranges = b.ranges
    /\ a.anchor_cell = b.anchor_cell
    /\ a.title = b.title
    /\ a.chart_type = b.chart_type

\* C3: for an entity bound by set_json from which get_json produces a
\* structure, set_json of that structure succeeds and leaves domain, ranges,
\* anchor cell, title and type as they were.
C3_EntityRoundTrip ==
    [][(last'.op = "round_trip" /\ get_json(ent).exc = "none")
        => (last'.exc = "none" /\ SameEntity(ent', ent))]_vars

\* C4: a valid 1-indexed inclusive range encoded as a GridRange and decoded
\* as set_json decodes a source is the range itself.
C4_RangeRoundTrip ==
    conv.state = "decoded" => conv.decoded = conv.r

\* A range that starts off the first row and column was encoded on another
\* sheet than the entity's and decoded.
C4_Witness ==
    /\ conv.state = "decoded"
    /\ conv.r = << <<2, 3>>, <<MaxIndex, 3>> >>
    /\ conv.sheet # WorksheetId
    /\ conv.grid.startRowIndex = 1
    /\ conv.grid.endRowIndex = MaxIndex

\* C5: once delete has succeeded on a bound entity, every later operation on
\* it fails with AlreadyDeleted and sends no request.
C5_DeletedIsTerminal ==
    [][(deleted /\ ent.chart_id # None)
        => (last'.exc = "AlreadyDeleted" /\ sent' = <<>>)]_vars

\* C6: constructing without json_obj sends a create request, and when the
\* collaborator accepts it the object exists with the id of the reply.
C6_CreationBinds ==
    (last.op = "init" /\ ~last.json /\ ~last.malformed)
        => /\ Len(sent) = 1
           /\ sent[1].kind = "addChart"
           /\ sent[1].accepted => (pc = "live" /\ ent.chart_id = ReplyChart.chartId)

\* C7: no update, position-update or delete request carries a null id.
C7_NoRequestWithoutId ==
    \A i \in DOMAIN sent :
        sent[i].kind \in {"updateChartSpec", "updateEmbeddedObjectPosition",
                          "deleteEmbeddedObject"}
            => sent[i].id # None

\* C8: a refresh whose fetched data holds no chart with the entity's id
\* fails with NotFound.
C8_RefreshMissingFails ==
    (/\ last.op = "refresh"
     /\ ent.chart_id # None
     /\ last.failure # "CollaboratorError"
     /\ ~last.present)
        => last.exc = "NotFound"

\* The domain, ranges and anchor cell a chart payload decodes to on its own.
DecodedDomain(chart) ==
    DecodeDomains(Get(chart.spec.basicChart, "domains", <<>>), <<>>).v
DecodedRanges(chart) ==
    DecodeSeries(Get(chart.spec.basicChart, "series", <<>>), <<>>).v
DecodedAnchor(chart) ==
    Pair(Get(chart.position.overlayPosition.anchorCell, "rowIndex", 0) + 1,
         Get(chart.position.overlayPosition.anchorCell, "columnIndex", 0) + 1)

\* C9: after a refresh that read the entity's chart, domain, ranges, anchor
\* cell and name are those of the payload; nothing local survives.
C9_PullReplaces ==
    (last.op = "refresh" /\ ent.chart_id # None /\ last.found /\ last.exc = "none")
        => /\ ent.domain = DecodedDomain(last.chart)
           /\ ent.ranges = DecodedRanges(last.chart)
           /\ ent.anchor_cell = DecodedAnchor(last.chart)
           /\ ent.name = Get(last.chart.spec, "title", None)

\* A wire GridRange of a well-formed range.
ValidGrid(g) ==
    /\ g.startRowIndex >= 0 /\ g.startColumnIndex >= 0
    /\ g.endRowIndex >= 1 /\ g.endColumnIndex >= 1

ValidSources(entries, kind) ==
    \A i \in DOMAIN entries :
        \A k \in DOMAIN entries[i][kind].sourceRange.sources :
            ValidGrid(entries[i][kind].sourceRange.sources[k])

\* A request built from an entity that has a source range and only
\* well-formed addresses.
ValidRequest(req) ==
    /\ req.kind \in {"updateChartSpec", "addChart"}
        => /\ req.spec.basicChart.domains # <<>>
           /\ ValidSources(req.spec.basicChart.domains, "domain")
           /\ ValidSources(req.spec.basicChart.series, "series")
    /\ req.kind \in {"updateEmbeddedObjectPosition", "addChart"}
        => (req.anchorCell.rowIndex >= 0 /\ req.anchorCell.columnIndex >= 0)

\* C10: an operation given a malformed address, or serializing an entity
\* without a source range, sends nothing, and every request sent was built
\* from a well-formed entity.
C10_ValidationPrecedesNetwork ==
    /\ (last.op # "none" /\ (last.malformed \/ last.nodomain)) => sent = <<>>
    /\ \A i \in DOMAIN sent : ValidRequest(sent[i])

\* The domain setter was given a malformed address on a bound entity with a
\* source range and raised before sending.
C10_Witness ==
    /\ last.op = "domain"
    /\ last.malformed
    /\ last.exc = "MalformedAddress"
    /\ ent.chart_id # None
    /\ ent.domain # <<>>
    /\ HasValueAttr(ent.chart_type)

\* C11: a constructor call that names no source (no domain, no json_obj)
\* fails with AmbiguousUnion, yields no object and sends no create request.
C11_SourceOneofAtConstruction ==
    (last.op = "init" /\ ~last.json /\ last.nodomain /\ ~last.malformed)
        => (last.exc = "AmbiguousUnion" /\ pc = "failed" /\ sent = <<>>)

\* Whether a domains list carries exactly one source.
OneSource(domain_list) ==
    /\ Len(domain_list) = 1
    /\ ~NoSources(domain_list[1], "domain")
    /\ Len(SourcesOf(domain_list[1], "domain")) = 1

\* Whether the chart read last carries exactly one source.
CarriesOneSource(chart) ==
    OneSource(Get(Get(Get(chart, "spec", EmptyObj), "basicChart", EmptyObj),
                  "domains", <<>>))

\* C12: set_json accepts a payload only when it carries exactly one source:
\* a refresh that read a chart and ended normally read a chart with exactly
\* one source.
C12_SourceOneofOnDecode ==
    (last.op = "refresh" /\ ent.chart_id # None /\ last.found /\ last.exc = "none")
        => CarriesOneSource(last.chart)

\* C13: a property assignment sends no request to the collaborator.
C13_MutationsAreStaged ==
    last.op \in Setters => sent = <<>>

\* C14: on a bound entity, after pivot.ranges = R with well-formed R the
\* ranges are R normalized (last.norm) and one update request carrying them
\* was sent.
C14_SetRangesTakesEffect ==
    (last.op = "ranges" /\ ~last.malformed /\ ent.chart_id # None)
        => /\ ent.ranges = last.norm.v
           /\ Len(sent) = 1
           /\ sent[1].kind = "updateChartSpec"
           /\ sent[1].spec.basicChart.series = _get_ranges_request(ent).v

\* C15: on a bound entity, a criteria assignment whose update the
\* collaborator accepted changes the criteria to the given value and no
\* other field.
C15_SetCriteriaTakesEffect ==
    [][(last'.op = "criteria" /\ last'.failure = "none" /\ ent.chart_id # None)
        => ent' = [ent EXCEPT !.criteria = last'.arg]]_vars

\* C16: on a bound entity, after an accepted pivot.name = n the name is n
\* and the update request carries n; after an accepted pivot.domain = (a, b)
\* the domain is the pair of normalized addresses (last.norm) and the update
\* request carries its GridRange.
C16_SetNameDomainTakesEffect ==
    /\ (last.op = "name" /\ last.failure = "none" /\ ent.chart_id # None)
        => /\ ent.name = last.arg
           /\ Len(sent) = 1
           /\ sent[1].spec.title = last.arg
    /\ (last.op = "domain" /\ last.failure = "none" /\ ent.chart_id # None)
        => /\ ent.domain = last.norm.v
           /\ Len(sent) = 1
           /\ sent[1].spec.basicChart.domains
                = <<[domain |-> SourceRange(get_gridrange(ent.domain[1],
                                                          ent.domain[2]).v)]>>

\* The (row, column) pair a caller-given Pair or Cell names.
GivenAnchor(arg) ==
    IF arg.tag = "Cell" THEN Pair(arg.row, arg.col) ELSE arg

\* C17: an anchor (row, column) goes to the wire as (row - 1, column - 1),
\* from _update_position and from _get_anchor_cell, and set_json decodes that
\* position to (row, column) again; an accepted anchor_cell assignment of a
\* pair or Cell stores and sends that cell; the anchor of a live entity
\* always has both components >= 1.
C17_AnchorRoundTrip ==
    /\ pc = "live"
        => /\ ent.anchor_cell.tag = "tuple"
           /\ ent.anchor_cell.v[1] >= 1
           /\ ent.anchor_cell.v[2] >= 1
    /\ (last.op = "anchor_cell" /\ last.failure = "none" /\ last.arg.tag # "str")
        => /\ ent.anchor_cell = GivenAnchor(last.arg)
           /\ Len(sent) = 1
           /\ sent[1].anchorCell = WireAnchorAt(GivenAnchor(last.arg).v[1],
                                                GivenAnchor(last.arg).v[2])
    /\ conv.state \in {"emitted", "decoded"}
        => conv.wire = WireAnchorAt(conv.anchor.v[1], conv.anchor.v[2])
    /\ conv.state = "decoded" => conv.decoded = conv.anchor

\* An anchor in the last row was sent by _update_position and the position
\* sent was read back by set_json.
C17_Witness ==
    /\ conv.state = "decoded"
    /\ conv.by = "_update_position"
    /\ conv.anchor = Pair(MaxIndex, 1)
    /\ conv.wire.rowIndex = MaxIndex - 1
    /\ conv.wire.columnIndex = 0
    /\ conv.decoded = Pair(MaxIndex, 1)
    /\ last.op = "set_json"
    /\ last.exc = "none"
    /\ ent.anchor_cell = Pair(MaxIndex, 1)

====
